---------------------------- MODULE Spec2Model ----------------------------
(***************************************************************************)
(* GuitarTrainer: the chord detector (chord_detector.py), the practice     *)
(* session (practice_modes.py, RegularPracticeMode), the BLE message       *)
(* queue, reader and connection (ble_connection_dual_core.py,              *)
(* guitar_trainer_app.py), the conversion helpers of config.py and the     *)
(* boot-time trainer loop (guitar_trainer_chords.py).                      *)
(*                                                                         *)
(* Python lists are indexed from 0; the detector table, collected_strings  *)
(* and pressed_frets are functions over 0..5 so that indices read as in    *)
(* the source.  Python's None is the integer None (no MIDI note or fret    *)
(* is negative).                                                           *)
(***************************************************************************)
EXTENDS Integers, Sequences, FiniteSets, TLC

VARIABLES
    played_notes,            \* ChordDetector.played_notes (ChordTrainer.played_notes
                             \* in the trainer's specification): index 0 = string 6
    last_note,               \* argument of the latest add_note call (None: none yet);
                             \* handle_midi's local last_note in the trainer
    prev_played,             \* played_notes before the latest add_note call
    chord_sequence,          \* RegularPracticeMode.chord_sequence
    current_chord_index,     \* RegularPracticeMode.current_chord_index
    target_chord,            \* RegularPracticeMode.target_chord
    mode,                    \* RegularPracticeMode.mode: "R" or "S"
    collected_strings,       \* RegularPracticeMode.collected_strings
    pressed_frets,           \* PracticeMode.pressed_frets
    started,                 \* run(): local started
    timeout_task,            \* run(): local timeout_task
    new_chord_list_uploaded, \* PracticeMode.new_chord_list_uploaded
    pc,                      \* position of the app and of run(): "scan", "menu",
                             \* "start", "loop", "returned", "raised"
    exit_cause,              \* how the session ended or why it was not started
    verdict,                 \* latest _process_chord_detection verdict
    pcd_return,              \* what the latest _process_chord_detection call did
    pre_call,                \* session fields before that call
    match_results,           \* number of detect_chord results produced in the session
    strums_completed,        \* number of times run() reached its completion branch
    messages,                \* SharedMIDIMessageQueue.messages
    dropped_count,           \* SharedMIDIMessageQueue.dropped_count
    connected,               \* BLEConnectionManagerDualCore.connected
    background_task,         \* BLEConnectionManagerDualCore.background_task is not None
    delivered,               \* every message handed to put(), in order
    notifications,           \* number of BLE notifications read so far
    accepted,                \* the messages put() queued, in order
    consumed,                \* the messages get() returned, in order
    put_returned,            \* what the latest put() returned ("none": no call yet)
    reader_running,          \* the _background_midi_reader task has not finished
    helper_call,             \* latest call of a config.py conversion helper
    up,                      \* ChordTrainer.handle_midi: local up
    notes_hit,               \* ChordTrainer.handle_midi: local notes_hit
    strum_origin,            \* index that started the strum in progress (None: none)
    event                    \* what handle_midi did with the latest Note On

vars == << played_notes, last_note, prev_played, chord_sequence,
           current_chord_index, target_chord, mode, collected_strings,
           pressed_frets, started, timeout_task, new_chord_list_uploaded,
           pc, exit_cause, verdict, pcd_return, pre_call, match_results,
           strums_completed, messages, dropped_count, connected,
           background_task, delivered, notifications, accepted, consumed,
           put_returned, reader_running, helper_call, up, notes_hit,
           strum_origin, event >>

detectorVars == << played_notes, last_note, prev_played >>
sessionVars == << chord_sequence, current_chord_index, target_chord, mode,
                  verdict, pcd_return, pre_call, match_results >>
runVars == << collected_strings, pressed_frets, started, timeout_task,
              new_chord_list_uploaded, pc, exit_cause, strums_completed >>
queueHistory == << accepted, consumed, put_returned >>
bleVars == << messages, dropped_count, connected, background_task,
              reader_running, delivered, notifications, queueHistory >>
unitVars == << helper_call, up, notes_hit, strum_origin, event >>

-----------------------------------------------------------------------------
(* Bounds of the model *)

MaxNote == 67            \* add_note is driven with the notes 39..MaxNote
MaxSlotFret == 1         \* highest fret per string in the slot-history check
MaxSeqLen == 3           \* longest chord sequence of a session
MaxOverrun == 2          \* how far current_chord_index may run past the end
MaxQueueSize == 6        \* SharedMIDIMessageQueue.max_size of the model
MaxNotifications == 3    \* BLE notifications read by the background reader
MaxPuts == 12            \* put() calls in the queue's own specifications
MaxTrainerSeqLen == 2    \* longest chord sequence of a boot-time trainer session
UnmappedNote == 70       \* a note above the frets 0-4 of every string
MaxHelperString == 7     \* the conversion helpers are called with strings 0..MaxHelperString

-----------------------------------------------------------------------------
(* config.py *)

None == -1

Strings == 0..5

\* if fret < 0 or fret > 24
MaxFret == 24

OPEN_STRING_NOTES == << 64, 59, 55, 50, 45, 40 >>

\* OPEN_STRING_NOTES[i] with Python's 0-based index
OpenNote(i) == OPEN_STRING_NOTES[i + 1]

CHORD_MIDI_NOTES ==
    ( "A"     :> << 64, 61, 57, 52, 45, 40 >> ) @@
    ( "Am"    :> << 64, 60, 57, 52, 45, 40 >> ) @@
    ( "A7"    :> << 64, 61, 55, 52, 45, 40 >> ) @@
    ( "B"     :> << 66, 63, 59, 54, 45, 40 >> ) @@
    ( "Bm"    :> << 66, 62, 59, 54, 45, 40 >> ) @@
    ( "B7"    :> << 66, 59, 57, 51, 47, 40 >> ) @@
    ( "C"     :> << 64, 60, 55, 52, 48, 40 >> ) @@
    ( "Cm"    :> << 64, 60, 55, 52, 48, 40 >> ) @@
    ( "C7"    :> << 64, 60, 58, 52, 48, 40 >> ) @@
    ( "D"     :> << 66, 62, 57, 50, 45, 40 >> ) @@
    ( "Dm"    :> << 65, 62, 57, 50, 45, 40 >> ) @@
    ( "D7"    :> << 66, 60, 57, 50, 45, 40 >> ) @@
    ( "E"     :> << 64, 59, 56, 52, 47, 40 >> ) @@
    ( "Em"    :> << 64, 59, 55, 52, 47, 40 >> ) @@
    ( "E7"    :> << 64, 59, 56, 50, 47, 40 >> ) @@
    ( "F"     :> << 65, 60, 57, 53, 45, 40 >> ) @@
    ( "Fm"    :> << 65, 60, 56, 53, 45, 40 >> ) @@
    ( "F7"    :> << 65, 60, 57, 51, 45, 40 >> ) @@
    ( "G"     :> << 67, 59, 55, 50, 47, 43 >> ) @@
    ( "Gm"    :> << 67, 62, 58, 50, 45, 40 >> ) @@
    ( "G7"    :> << 65, 59, 55, 50, 47, 43 >> ) @@
    ( "D6/9"  :> << 64, 59, 55, 50, 47, 42 >> ) @@
    ( "G/B"   :> << 64, 59, 55, 50, 47, 42 >> ) @@
    ( "Am7"   :> << 64, 59, 55, 50, 47, 42 >> ) @@
    ( "D7/F#" :> << 64, 59, 55, 50, 47, 42 >> )

ChordNames == DOMAIN CHORD_MIDI_NOTES

Range(seq) == { seq[i] : i \in DOMAIN seq }

-----------------------------------------------------------------------------
(* chord_detector.py *)

EmptyTable == [ i \in Strings |-> None ]

\* _create_string_map: for string_num = 6 down to 1, for fret = 0..24,
\* string_map[open_note + fret] = string_num; a later string overwrites.
RECURSIVE CreateStringMapFrom(_, _)
CreateStringMapFrom(string_num, string_map) ==
    IF string_num < 1 THEN string_map
    ELSE LET open_note == OPEN_STRING_NOTES[string_num]
             written == [ n \in 0..127 |->
                            IF n >= open_note /\ n <= open_note + 24
                            THEN string_num ELSE string_map[n] ]
         IN  CreateStringMapFrom(string_num - 1, written)

string_number_map == CreateStringMapFrom(6, [ n \in 0..127 |-> None ])

\* string_number_map.get(note)
get_string_from_note(note) ==
    IF note \in DOMAIN string_number_map THEN string_number_map[note] ELSE None

\* The string from the map alone, without the special case for note 59
AddNoteStringPlain(table, note) == get_string_from_note(note)

\* The string add_note files the note under (None: the note is not in the map)
AddNoteString(table, note) ==
    LET string_n == get_string_from_note(note)
    IN  IF string_n = None THEN None
        ELSE IF note = 59 /\ table[4] # None /\ table[3] = None THEN 3
        ELSE string_n

\* add_note with the comparison dropped: the new note always replaces the held one
add_note_overwrite(table, note) ==
    LET string_n == AddNoteString(table, note)
    IN  IF string_n = None THEN table
        ELSE [ table EXCEPT ![6 - string_n] = note ]

\* add_note(note): the table after the call
add_note(table, note) ==
    LET string_n == AddNoteString(table, note)
    IN  IF string_n = None THEN table
        ELSE LET string_num == 6 - string_n
                 current_note == table[string_num]
             IN  IF current_note = None \/ note > current_note
                 THEN [ table EXCEPT ![string_num] = note ]
                 ELSE table

\* get_played_notes
get_played_notes(table) == { table[i] : i \in Strings } \ { None }

\* detect_chord with an exact-match test in place of issuperset
detect_chord_exact(table, played_chords, chord) ==
    LET expected_notes == IF chord \in ChordNames
                          THEN Range(CHORD_MIDI_NOTES[chord]) ELSE {}
        notes == get_played_notes(table)
        non_open_expected == { n \in expected_notes : n \notin Range(OPEN_STRING_NOTES) }
    IN  IF non_open_expected = {}
        THEN [ is_correct |-> FALSE, has_sets |-> FALSE,
               matching |-> {}, missing |-> {}, extra |-> {} ]
        ELSE [ is_correct |-> (notes = non_open_expected), has_sets |-> TRUE,
               matching |-> notes \cap non_open_expected,
               missing |-> non_open_expected \ notes,
               extra |-> notes \ non_open_expected ]

\* detect_chord without the early return for an empty set of required notes
detect_chord_vacuous(table, played_chords, chord) ==
    LET expected_notes == IF chord \in ChordNames
                          THEN Range(CHORD_MIDI_NOTES[chord]) ELSE {}
        notes == get_played_notes(table)
        non_open_expected == { n \in expected_notes : n \notin Range(OPEN_STRING_NOTES) }
    IN  [ is_correct |-> (non_open_expected \subseteq notes), has_sets |-> TRUE,
          matching |-> notes \cap non_open_expected,
          missing |-> non_open_expected \ notes,
          extra |-> notes \ non_open_expected ]

\* detect_chord(played_chords, target_chord): played_chords is not read, the
\* detector's own table is; has_sets is FALSE for the (False, None, None, None) return
detect_chord(table, played_chords, chord) ==
    LET expected_notes == IF chord \in ChordNames
                          THEN Range(CHORD_MIDI_NOTES[chord]) ELSE {}
        notes == get_played_notes(table)
        non_open_expected == { n \in expected_notes : n \notin Range(OPEN_STRING_NOTES) }
    IN  IF non_open_expected = {}
        THEN [ is_correct |-> FALSE, has_sets |-> FALSE,
               matching |-> {}, missing |-> {}, extra |-> {} ]
        ELSE [ is_correct |-> (non_open_expected \subseteq notes), has_sets |-> TRUE,
               matching |-> notes \cap non_open_expected,
               missing |-> non_open_expected \ notes,
               extra |-> notes \ non_open_expected ]

-----------------------------------------------------------------------------
(* Values of the fields a specification does not exercise: the objects as  *)
(* their constructors leave them.                                          *)

NoChord == "None"

\* ChordDetector.__init__
DetectorConstructed ==
    /\ played_notes = EmptyTable
    /\ last_note = None
    /\ prev_played = EmptyTable

\* RegularPracticeMode.__init__ and the locals of run() before its loop
RunConstructed ==
    /\ collected_strings = [ i \in Strings |-> None ]
    /\ pressed_frets = [ i \in Strings |-> 0 ]
    /\ started = FALSE
    /\ timeout_task = "none"
    /\ new_chord_list_uploaded = FALSE
    /\ exit_cause = "none"
    /\ strums_completed = 0

SessionConstructed ==
    /\ current_chord_index = 0
    /\ target_chord = NoChord
    /\ verdict = "none"
    /\ pcd_return = "none"
    /\ pre_call = << >>
    /\ match_results = 0

\* SharedMIDIMessageQueue.__init__, BLEConnectionManagerDualCore.__init__
BleConstructed ==
    /\ messages = << >>
    /\ dropped_count = 0
    /\ connected = FALSE
    /\ background_task = FALSE
    /\ reader_running = FALSE
    /\ delivered = << >>
    /\ notifications = 0
    /\ accepted = << >>
    /\ consumed = << >>
    /\ put_returned = "none"

\* No conversion helper called yet
NoCall == [ fn |-> "none", string |-> 0, arg |-> 0, raised |-> FALSE,
            value |-> None ]

\* No Note On handled yet by handle_midi
NoEvent == [ note |-> None, was_started |-> FALSE, origin |-> None,
             started_now |-> FALSE, completed |-> FALSE ]

\* The locals of ChordTrainer.handle_midi before its loop (lines 1446-1452),
\* and no helper call and no Note On so far
UnitConstructed ==
    /\ helper_call = NoCall
    /\ up = FALSE
    /\ notes_hit = "False"
    /\ strum_origin = None
    /\ event = NoEvent

-----------------------------------------------------------------------------
(* The detector under any caller: add_note and reset in any order.         *)

DetectorNotes == (OPEN_STRING_NOTES[6] - 1)..MaxNote

\* ChordDetector.add_note(note)
DetectorAddNote(note) ==
    /\ played_notes' = add_note(played_notes, note)
    /\ UNCHANGED << last_note, prev_played >>

\* ChordDetector.reset()
DetectorReset ==
    /\ played_notes' = EmptyTable
    /\ UNCHANGED << last_note, prev_played >>

DetectorInit ==
    /\ DetectorConstructed
    /\ RunConstructed /\ pc = "start"
    /\ SessionConstructed /\ chord_sequence = << >> /\ mode = "R"
    /\ BleConstructed
    /\ UnitConstructed

DetectorNext ==
    \/ \E note \in DetectorNotes :
          DetectorAddNote(note) /\ UNCHANGED << sessionVars, runVars, bleVars, unitVars >>
    \/ DetectorReset /\ UNCHANGED << sessionVars, runVars, bleVars, unitVars >>

SpecDetector == DetectorInit /\ [][DetectorNext]_vars

-----------------------------------------------------------------------------
(* The same detector driven with the first frets of every string, keeping  *)
(* the argument of the latest call and the table before it.                *)

SlotNotes == { OpenNote(s) + f : s \in Strings, f \in 0..MaxSlotFret }
                 \cup { OPEN_STRING_NOTES[6] - 1 }

\* ChordDetector.add_note(note), recording the call
SlotAddNote(note) ==
    /\ played_notes' = add_note(played_notes, note)
    /\ last_note' = note
    /\ prev_played' = played_notes

\* ChordDetector.reset()
SlotReset ==
    /\ played_notes' = EmptyTable
    /\ last_note' = None
    /\ prev_played' = EmptyTable

SlotNext ==
    \/ \E note \in SlotNotes :
          SlotAddNote(note) /\ UNCHANGED << sessionVars, runVars, bleVars, unitVars >>
    \/ SlotReset /\ UNCHANGED << sessionVars, runVars, bleVars, unitVars >>

SpecSlot == DetectorInit /\ [][SlotNext]_vars

-----------------------------------------------------------------------------
(* practice_modes.py: RegularPracticeMode._process_chord_detection *)

\* shuffled[i] = shuffled[j] with the other half of the swap lost
SwapLost(shuffled, i, j) == [ shuffled EXCEPT ![i + 1] = shuffled[j + 1] ]

\* shuffled[i], shuffled[j] = shuffled[j], shuffled[i]   (0-based i, j)
Swap(shuffled, i, j) ==
    [ shuffled EXCEPT ![i + 1] = shuffled[j + 1], ![j + 1] = shuffled[i + 1] ]

\* for i in range(n - 1, 0, -1): j = urandom.getrandbits(16) % (i + 1); swap.
\* Every j in 0..i is a possible draw; the set of lists the loop can end with.
RECURSIVE ShuffleFrom(_, _)
ShuffleFrom(shuffled, i) ==
    IF i < 1 THEN { shuffled }
    ELSE UNION { ShuffleFrom(Swap(shuffled, i, j), i - 1) : j \in 0..i }

\* One call of _process_chord_detection from the given fields: the set of
\* outcomes (one per draw of the random source).  ret is "None" for the
\* normal return, "menu" for the early return of Sequential mode and
\* "IndexError" when chord_sequence[current_chord_index] raises.
ProcessOutcomes(table, collected, sequence, index, target, md) ==
    LET r == detect_chord(table, collected, target)
        n == Len(sequence)
        \* lines 471-476: reset the detector, then present chord_sequence[index]
        Present(seq2, idx2) ==
            IF idx2 < Len(seq2)
            THEN [ table |-> EmptyTable, sequence |-> seq2, index |-> idx2,
                   target |-> seq2[idx2 + 1], ret |-> "None",
                   is_correct |-> r.is_correct ]
            ELSE [ table |-> EmptyTable, sequence |-> seq2, index |-> idx2,
                   target |-> target, ret |-> "IndexError",
                   is_correct |-> r.is_correct ]
    IN  IF r.is_correct
        THEN IF index + 1 >= n
             THEN IF md = "R"
                  THEN { Present(shuffled, 0) : shuffled \in ShuffleFrom(sequence, n - 1) }
                  ELSE { [ table |-> table, sequence |-> sequence, index |-> index + 1,
                           target |-> target, ret |-> "menu", is_correct |-> TRUE ] }
             ELSE { Present(sequence, index + 1) }
        ELSE { Present(sequence, index) }

\* The fields after a call, with the record of the call
ProcessApplied(o) ==
    /\ played_notes' = o.table
    /\ chord_sequence' = o.sequence
    /\ current_chord_index' = o.index
    /\ target_chord' = o.target
    /\ verdict' = IF o.is_correct THEN "correct" ELSE "incorrect"
    /\ pcd_return' = o.ret
    /\ pre_call' = << current_chord_index, chord_sequence, target_chord >>
    /\ match_results' = IF match_results < 2 THEN match_results + 1 ELSE match_results

-----------------------------------------------------------------------------
(* The session's verdict handling under its callers: run() and             *)
(* timeout_handler() await _process_chord_detection and drop what it       *)
(* returns, so it is called again whatever it returned.                    *)

SessionChords == { "Em", "G" }

RECURSIVE SequencesUpTo(_, _)
SequencesUpTo(S, n) ==
    IF n = 0 THEN { << >> }
    ELSE LET shorter == SequencesUpTo(S, n - 1)
         IN  shorter \cup { Append(q, c) : q \in shorter, c \in S }

SessionSequences == SequencesUpTo(SessionChords, MaxSeqLen) \ { << >> }

\* The notes a strum is driven with: the fretted notes of the session's
\* chords and the open first string
SessionNotes ==
    UNION { Range(CHORD_MIDI_NOTES[c]) \ Range(OPEN_STRING_NOTES) : c \in SessionChords }
        \cup { OPEN_STRING_NOTES[1] }

\* RegularPracticeMode.__init__ and run() up to its loop (lines 85-170)
SessionInit ==
    /\ DetectorConstructed
    /\ RunConstructed /\ pc = "loop"
    /\ chord_sequence \in SessionSequences
    /\ mode \in { "R", "S" }
    /\ current_chord_index = 0
    /\ target_chord = chord_sequence[1]
    /\ verdict = "none" /\ pcd_return = "none" /\ pre_call = << >>
    /\ match_results = 0
    /\ BleConstructed
    /\ UnitConstructed

\* ChordDetector.add_note(note) during a strum
SessionAddNote(note) ==
    /\ played_notes' = add_note(played_notes, note)
    /\ UNCHANGED << last_note, prev_played, sessionVars, runVars, bleVars, unitVars >>

\* await self._process_chord_detection()
SessionProcess ==
    /\ current_chord_index <= Len(chord_sequence) + MaxOverrun
    /\ \E o \in ProcessOutcomes(played_notes, collected_strings, chord_sequence,
                                 current_chord_index, target_chord, mode) :
          ProcessApplied(o)
    /\ UNCHANGED << last_note, prev_played, mode, runVars, bleVars, unitVars >>

\* self.detector.reset() of timeout_handler, after the call
SessionReset ==
    /\ played_notes' = EmptyTable
    /\ UNCHANGED << last_note, prev_played, sessionVars, runVars, bleVars, unitVars >>

SessionNext ==
    \/ \E note \in SessionNotes : SessionAddNote(note)
    \/ SessionProcess
    \/ SessionReset

SpecSession == SessionInit /\ [][SessionNext]_vars

-----------------------------------------------------------------------------
(* config.py: string/fret conversion; ble_connection_dual_core.py: parser  *)

\* get_note_from_string_fret raises ValueError
get_note_from_string_fret_raises(string, fret) ==
    string < 0 \/ string > 5 \/ fret < 0 \/ fret > MaxFret

\* get_note_from_string_fret(string, fret), when it does not raise
get_note_from_string_fret(string, fret) == OpenNote(string) + fret

\* get_fret_from_string_note raises ValueError
get_fret_from_string_note_raises(string, note) == string < 0 \/ string > 5

\* get_fret_from_string_note(string, note), when it does not raise
get_fret_from_string_note(string, note) ==
    LET fret == note - OpenNote(string)
    IN  IF fret < 0 \/ fret > MaxFret THEN None ELSE fret

\* A MIDI message of a notification: << status, data1, data2 >>
StatusCommand(raw) == (raw[1] \div 16) * 16
StatusString(raw) ==
    IF StatusCommand(raw) = 176 THEN raw[1] % 16 ELSE 5 - (raw[1] % 16)

\* _parse_midi_messages raises on this message (the config helper rejects the string)
ParseRaises(raw) ==
    IF StatusCommand(raw) = 176
    THEN get_note_from_string_fret_raises(StatusString(raw), raw[3])
    ELSE get_fret_from_string_note_raises(StatusString(raw), raw[2])

\* msg = [command, string_number, fret_number, note, fret_pressed]
ParseMessage(raw) ==
    LET command == StatusCommand(raw)
        string_number == StatusString(raw)
        fret_pressed == IF command = 144 THEN 1
                        ELSE IF command = 128 THEN 0
                        ELSE raw[2] % 2
        fret_number == IF command = 176 THEN raw[3]
                       ELSE get_fret_from_string_note(string_number, raw[2])
        note == IF command = 176
                THEN get_note_from_string_fret(string_number, raw[3])
                ELSE raw[2]
    IN  [ command |-> command, string_num |-> string_number,
          fret_num |-> fret_number, note |-> note, fret_pressed |-> fret_pressed ]

\* _parse_midi_messages(data) for a notification of three-byte messages
ParseMidiMessages(data) == [ i \in DOMAIN data |-> ParseMessage(data[i]) ]

-----------------------------------------------------------------------------
(* ble_connection_dual_core.py: SharedMIDIMessageQueue *)

\* put with the oldest message dropped when the queue is full
QueuePutDropOldest(q, message) ==
    IF Len(q.messages) >= MaxQueueSize
    THEN [ messages |-> Append(Tail(q.messages), message),
           dropped_count |-> q.dropped_count + 1, returned |-> FALSE ]
    ELSE [ messages |-> Append(q.messages, message),
           dropped_count |-> q.dropped_count, returned |-> TRUE ]

\* put without the size check
QueuePutUnbounded(q, message) ==
    [ messages |-> Append(q.messages, message),
      dropped_count |-> q.dropped_count, returned |-> TRUE ]

\* put(message): the queue and the drop counter after the call, and what
\* the call returned
QueuePut(q, message) ==
    IF Len(q.messages) >= MaxQueueSize
    THEN [ messages |-> q.messages, dropped_count |-> q.dropped_count + 1,
           returned |-> FALSE ]
    ELSE [ messages |-> Append(q.messages, message),
           dropped_count |-> q.dropped_count, returned |-> TRUE ]

\* get with pop() in place of pop(0)
QueueGetNewest(q) ==
    IF Len(q.messages) > 0
    THEN [ messages |-> SubSeq(q.messages, 1, Len(q.messages) - 1),
           dropped_count |-> q.dropped_count,
           returned |-> q.messages[Len(q.messages)] ]
    ELSE [ messages |-> q.messages, dropped_count |-> q.dropped_count,
           returned |-> None ]

\* get(): the queue after the call and the message returned (None: empty)
QueueGet(q) ==
    IF Len(q.messages) > 0
    THEN [ messages |-> Tail(q.messages), dropped_count |-> q.dropped_count,
           returned |-> Head(q.messages) ]
    ELSE [ messages |-> q.messages, dropped_count |-> q.dropped_count,
           returned |-> None ]

\* clear()
QueueClear(q) == [ messages |-> << >>, dropped_count |-> 0 ]

\* for msg in messages: self.message_queue.put(msg)
RECURSIVE QueuePutAll(_, _)
QueuePutAll(q, msgs) ==
    IF msgs = << >> THEN q
    ELSE QueuePutAll(QueuePut(q, Head(msgs)), Tail(msgs))

-----------------------------------------------------------------------------
(* The queue under a producer and a consumer in any interleaving; every    *)
(* method runs under the queue's lock, so each call is one step.           *)

\* The queue object of the model's state
TheQueue == [ messages |-> messages, dropped_count |-> dropped_count ]

QueueInit ==
    /\ DetectorConstructed
    /\ RunConstructed /\ pc = "start"
    /\ SessionConstructed
    /\ chord_sequence = << >> /\ mode = "R"
    /\ BleConstructed
    /\ UnitConstructed

\* The producer calls put(message); the k-th message put is the number k
ProducerPut ==
    /\ Len(delivered) < MaxPuts
    /\ LET message == Len(delivered) + 1
           q == QueuePut(TheQueue, message)
       IN  /\ messages' = q.messages
           /\ dropped_count' = q.dropped_count
           /\ delivered' = Append(delivered, message)
           /\ accepted' = IF q.returned THEN Append(accepted, message) ELSE accepted
           /\ put_returned' = IF q.returned THEN "True" ELSE "False"
    /\ UNCHANGED << detectorVars, sessionVars, runVars, connected,
                    background_task, reader_running, unitVars, notifications, consumed >>

\* The consumer calls wait_for_queued_midi(), which calls get()
ConsumerGet ==
    /\ LET q == QueueGet(TheQueue)
       IN  /\ messages' = q.messages
           /\ dropped_count' = q.dropped_count
           /\ consumed' = IF Len(messages) > 0 THEN Append(consumed, q.returned)
                          ELSE consumed
    /\ UNCHANGED << detectorVars, sessionVars, runVars, connected,
                    background_task, reader_running, unitVars, delivered, notifications, accepted,
                    put_returned >>

\* clear()
ConsumerClear ==
    /\ LET q == QueueClear(TheQueue)
       IN  /\ messages' = q.messages
           /\ dropped_count' = q.dropped_count
    /\ UNCHANGED << detectorVars, sessionVars, runVars, connected,
                    background_task, reader_running, unitVars, delivered, notifications, queueHistory >>

FifoNext == ProducerPut \/ ConsumerGet

SpecFifo == QueueInit /\ [][FifoNext]_vars

QueueNext == ProducerPut \/ ConsumerGet \/ ConsumerClear

SpecQueue == QueueInit /\ [][QueueNext]_vars

-----------------------------------------------------------------------------
(* The notifications the guitar sends in the model *)

NoteOn(string_num, note) == << 144 + (5 - string_num), note, 100 >>
NoteOff(string_num, note) == << 128 + (5 - string_num), note, 0 >>
FretControl(channel, pressed, fret) == << 176 + channel, pressed, fret >>

\* A sweep from string 1 to string 6 playing the chord's six notes
StrumOf(chord) == [ i \in 1..6 |-> NoteOn(i - 1, CHORD_MIDI_NOTES[chord][i]) ]

Notifications ==
    { StrumOf(chord) : chord \in SessionChords }
        \cup { << NoteOn(0, 64), NoteOn(5, 40) >> }
        \cup { << NoteOn(s, OpenNote(s)) >> : s \in { 0, 2, 5 } }
        \cup { << NoteOn(0, 86) >> }
        \cup { << NoteOn(5, OpenNote(5) - 1) >> }
        \cup { << FretControl(3, 1, 2) >>, << FretControl(3, 0, 2) >>,
                << NoteOff(3, 52) >>, << FretControl(6, 1, 2) >> }

-----------------------------------------------------------------------------
(* The program: the background reader fills the queue, run() drains it *)

\* def add_note(self, note): one parameter besides self
add_note_parameters == 1

\* self.detector.add_note(note, string_num, fret_num): three arguments
add_note_arguments == 3

\* The call in run() raises TypeError before add_note's body runs
AddNoteCallRaises == add_note_arguments # add_note_parameters

\* timeout_task.cancel() if timeout_task is not None
Cancelled(task) == IF task = "pending" THEN "cancelled" ELSE task

\* The app has connected, started the reader and built the practice mode
Init ==
    /\ DetectorConstructed
    /\ RunConstructed /\ pc = "start"
    /\ SessionConstructed
    /\ chord_sequence \in SessionSequences
    /\ mode \in { "R", "S" }
    /\ messages = << >> /\ dropped_count = 0
    /\ connected = TRUE /\ background_task = TRUE /\ reader_running = TRUE
    /\ delivered = << >> /\ notifications = 0
    /\ accepted = << >> /\ consumed = << >> /\ put_returned = "none"
    /\ UnitConstructed

\* _background_midi_reader: one notification parsed and queued
ReaderNotify(data) ==
    /\ connected /\ reader_running
    /\ notifications < MaxNotifications
    /\ notifications' = notifications + 1
    /\ IF \E i \in DOMAIN data : ParseRaises(data[i])
       THEN UNCHANGED << messages, dropped_count, delivered >>
       ELSE LET msgs == ParseMidiMessages(data)
                q == QueuePutAll([ messages |-> messages,
                                   dropped_count |-> dropped_count ], msgs)
            IN  /\ messages' = q.messages
                /\ dropped_count' = q.dropped_count
                /\ delivered' = delivered \o msgs
    /\ UNCHANGED << detectorVars, sessionVars, runVars, connected, background_task, reader_running, unitVars,
                    queueHistory >>

\* run() up to its loop
RunStart ==
    /\ pc = "start"
    /\ IF ~connected
       THEN /\ pc' = "returned" /\ exit_cause' = "not_connected"
            /\ UNCHANGED << played_notes, target_chord, collected_strings,
                            started, timeout_task >>
       ELSE IF current_chord_index >= Len(chord_sequence)
       THEN \* line 118 raises IndexError, outside the try: run() raises
            /\ played_notes' = EmptyTable
            /\ pc' = "raised" /\ exit_cause' = "IndexError"
            /\ UNCHANGED << target_chord, collected_strings, started, timeout_task >>
       ELSE /\ played_notes' = EmptyTable
            /\ target_chord' = chord_sequence[current_chord_index + 1]
            /\ collected_strings' = [ i \in Strings |-> None ]
            /\ started' = FALSE
            /\ timeout_task' = "none"
            /\ pc' = "loop" /\ exit_cause' = exit_cause
    /\ UNCHANGED << last_note, prev_played, chord_sequence, current_chord_index,
                    mode, verdict, pcd_return, pre_call, match_results,
                    pressed_frets, new_chord_list_uploaded, strums_completed,
                    bleVars, unitVars >>

\* One iteration of run()'s loop that dequeues a message of this command.
\* new_chord_list_uploaded is assigned only in __init__ and in the loop's
\* own check, and connected is cleared only outside run().
LoopTakes(command) ==
    /\ pc = "loop"
    /\ connected /\ ~new_chord_list_uploaded
    /\ messages # << >>
    /\ Head(messages).command = command

\* The strike once add_note has returned
StrikeAccepted(data) ==
    LET table1 == add_note(played_notes, data.note)
        started1 == started \/ data.string_num \in { 0, 5 }
        collected1 == [ collected_strings EXCEPT ![data.string_num] = data.note ]
    IN  IF data.note = 86
        THEN /\ played_notes' = table1
             /\ timeout_task' = Cancelled(timeout_task)
             /\ pc' = "returned" /\ exit_cause' = "menu_note"
             /\ UNCHANGED << collected_strings, started, strums_completed, sessionVars >>
        ELSE IF \E i \in Strings : collected1[i] = None
        THEN /\ played_notes' = table1
             /\ collected_strings' = collected1
             /\ started' = started1
             /\ timeout_task' = "pending"
             /\ UNCHANGED << pc, exit_cause, strums_completed, sessionVars >>
        ELSE \E o \in ProcessOutcomes(table1, collected1, chord_sequence,
                                      current_chord_index, target_chord, mode) :
                /\ ProcessApplied(o)
                /\ mode' = mode
                /\ timeout_task' = "cancelled"
                /\ started' = FALSE
                /\ strums_completed' =
                       IF strums_completed < 2 THEN strums_completed + 1
                       ELSE strums_completed
                /\ IF o.ret = "IndexError"
                   THEN /\ collected_strings' = collected1
                        /\ pc' = "returned" /\ exit_cause' = "exception"
                   ELSE /\ collected_strings' = [ i \in Strings |-> None ]
                        /\ UNCHANGED << pc, exit_cause >>

\* command == 0x90: a string was struck
LoopNoteOn ==
    /\ LoopTakes(144)
    /\ LET data == Head(messages)
       IN  /\ messages' = Tail(messages)
           /\ pressed_frets' = [ pressed_frets EXCEPT ![data.string_num] =
                                   IF data.fret_pressed > 0 THEN data.fret_num ELSE 0 ]
           /\ IF AddNoteCallRaises
              THEN /\ timeout_task' = Cancelled(timeout_task)
                   /\ pc' = "returned" /\ exit_cause' = "exception"
                   /\ UNCHANGED << played_notes, collected_strings, started,
                                   strums_completed, sessionVars >>
              ELSE StrikeAccepted(data)
    /\ UNCHANGED << last_note, prev_played, new_chord_list_uploaded,
                    dropped_count, connected, background_task, reader_running, unitVars, delivered,
                    notifications, queueHistory >>

\* command == 0xB0: a fret was pressed or released
LoopFretControl ==
    /\ LoopTakes(176)
    /\ LET data == Head(messages)
       IN  /\ messages' = Tail(messages)
           /\ pressed_frets' = [ pressed_frets EXCEPT ![data.string_num] =
                                   IF data.fret_pressed > 0 THEN data.fret_num ELSE 0 ]
    /\ UNCHANGED << detectorVars, sessionVars, collected_strings, started,
                    timeout_task, new_chord_list_uploaded, pc, exit_cause,
                    strums_completed, dropped_count, connected, background_task, reader_running, unitVars,
                    delivered, notifications, queueHistory >>

\* command == 0x80: note off
LoopNoteOff ==
    /\ LoopTakes(128)
    /\ LET data == Head(messages)
       IN  /\ messages' = Tail(messages)
           /\ pressed_frets' = [ pressed_frets EXCEPT ![data.string_num] = 0 ]
    /\ UNCHANGED << detectorVars, sessionVars, collected_strings, started,
                    timeout_task, new_chord_list_uploaded, pc, exit_cause,
                    strums_completed, dropped_count, connected, background_task, reader_running, unitVars,
                    delivered, notifications, queueHistory >>

Next ==
    \/ \E data \in Notifications : ReaderNotify(data)
    \/ RunStart
    \/ LoopNoteOn
    \/ LoopFretControl
    \/ LoopNoteOff

Spec == Init /\ [][Next]_vars

-----------------------------------------------------------------------------
(* guitar_trainer_app.py: from the menu's selection to the start of run()  *)

\* A chord name CHORD_MIDI_NOTES has no entry for
UnknownChord == "X"

AppChords == SessionChords \cup { UnknownChord }

\* The prefixes that select a RegularPracticeMode ('M' selects the metronome mode)
ModePrefixes == { "R", "S", "H" }

\* What the menu can return: the lists of custom_chords.json, a mode prefix
\* first or none
PracticeOptions ==
    LET lists == SequencesUpTo(AppChords, MaxSeqLen)
    IN  lists \cup { << m >> \o q : m \in ModePrefixes, q \in lists }

\* The app's test with the check left out
HasNoChordsUnchecked(sequence) == FALSE

\* if len(self.chord_sequence) == 0
HasNoChords(sequence) == Len(sequence) = 0

AppInit ==
    /\ DetectorConstructed
    /\ RunConstructed /\ pc = "menu"
    /\ SessionConstructed
    /\ chord_sequence = << >> /\ mode = "R"
    /\ messages = << >> /\ dropped_count = 0
    /\ connected = TRUE /\ background_task = TRUE /\ reader_running = TRUE
    /\ delivered = << >> /\ notifications = 0
    /\ accepted = << >> /\ consumed = << >> /\ put_returned = "none"
    /\ UnitConstructed

\* GuitarTrainerApp.run: the menu returned selected_chords
AppSelect(selected_chords) ==
    /\ pc = "menu"
    /\ connected
    /\ LET prefixed == /\ Len(selected_chords) > 0
                       /\ selected_chords[1] \in { "R", "S", "M", "H" }
           randomize_mode == IF prefixed THEN selected_chords[1] ELSE "None"
           sequence == IF prefixed THEN Tail(selected_chords) ELSE selected_chords
       IN  /\ chord_sequence' = sequence
           /\ current_chord_index' = 0
           /\ IF HasNoChords(sequence)
              THEN /\ pc' = "menu" /\ exit_cause' = "no_chords"
                   /\ mode' = mode
              ELSE /\ pc' = "start" /\ exit_cause' = "none"
                   /\ mode' = IF randomize_mode \in { "R", "S" }
                              THEN randomize_mode ELSE "R"
    /\ UNCHANGED << detectorVars, target_chord, verdict, pcd_return, pre_call,
                    match_results, collected_strings, pressed_frets, started,
                    timeout_task, new_chord_list_uploaded, strums_completed,
                    bleVars, unitVars >>

AppNext ==
    \/ \E selected_chords \in PracticeOptions : AppSelect(selected_chords)
    \/ RunStart

SpecApp == AppInit /\ [][AppNext]_vars

-----------------------------------------------------------------------------
(* config.py: the conversion helpers under any caller *)

HelperStrings == 0..MaxHelperString
HelperFrets == -1..(MaxFret + 1)
HelperNotes == (OPEN_STRING_NOTES[6] - 1)..(OPEN_STRING_NOTES[1] + MaxFret + 1)

ConfigInit ==
    /\ DetectorConstructed
    /\ RunConstructed /\ pc = "start"
    /\ SessionConstructed
    /\ chord_sequence = << >> /\ mode = "R"
    /\ BleConstructed
    /\ UnitConstructed

\* get_note_from_string_fret(string, fret)
CallGetNote(string, fret) ==
    /\ helper_call' =
          IF get_note_from_string_fret_raises(string, fret)
          THEN [ fn |-> "get_note_from_string_fret", string |-> string,
                 arg |-> fret, raised |-> TRUE, value |-> None ]
          ELSE [ fn |-> "get_note_from_string_fret", string |-> string,
                 arg |-> fret, raised |-> FALSE,
                 value |-> get_note_from_string_fret(string, fret) ]
    /\ UNCHANGED << detectorVars, sessionVars, runVars, bleVars, up, notes_hit,
                    strum_origin, event >>

\* get_fret_from_string_note(string, note)
CallGetFret(string, note) ==
    /\ helper_call' =
          IF get_fret_from_string_note_raises(string, note)
          THEN [ fn |-> "get_fret_from_string_note", string |-> string,
                 arg |-> note, raised |-> TRUE, value |-> None ]
          ELSE [ fn |-> "get_fret_from_string_note", string |-> string,
                 arg |-> note, raised |-> FALSE,
                 value |-> get_fret_from_string_note(string, note) ]
    /\ UNCHANGED << detectorVars, sessionVars, runVars, bleVars, up, notes_hit,
                    strum_origin, event >>

ConfigNext ==
    \/ \E string \in HelperStrings, fret \in HelperFrets : CallGetNote(string, fret)
    \/ \E string \in HelperStrings, note \in HelperNotes : CallGetFret(string, note)

SpecConfig == ConfigInit /\ [][ConfigNext]_vars

-----------------------------------------------------------------------------
(* guitar_trainer_app.py and ble_connection_dual_core.py: connecting, the   *)
(* background reader and reconnecting.  pc is "scan" while the app is at    *)
(* the head of its outer loop and "menu" while the menu is shown.           *)

ConnectionInit ==
    /\ DetectorConstructed
    /\ RunConstructed /\ pc = "scan"
    /\ SessionConstructed
    /\ chord_sequence = << >> /\ mode = "R"
    /\ BleConstructed
    /\ UnitConstructed

\* start_background_reader: if not self.background_task: create_task(...)
\* The pair << background_task, reader_running >> after the call
start_background_reader(task, running) ==
    IF ~ task THEN << TRUE, TRUE >> ELSE << task, running >>

\* GuitarTrainerApp.run: not connected, scan_and_connect() returned True
\* (a scan that fails changes nothing and the app tries again)
ScanAndConnect ==
    /\ pc = "scan"
    /\ ~ connected
    /\ connected' = TRUE
    /\ LET r == start_background_reader(background_task, reader_running)
       IN  background_task' = r[1] /\ reader_running' = r[2]
    /\ pc' = "menu"
    /\ UNCHANGED << detectorVars, sessionVars, collected_strings, pressed_frets,
                    started, timeout_task, new_chord_list_uploaded, exit_cause,
                    strums_completed, messages, dropped_count, delivered,
                    notifications, queueHistory, unitVars >>

\* show_menu_and_wait_for_selection: one pass of the menu loop that takes a
\* message and selects nothing
MenuTakes ==
    /\ pc = "menu"
    /\ connected
    /\ ConsumerGet

\* show_menu_and_wait_for_selection raised inside its try and returned None;
\* the app takes that for a lost connection: self.ble.connected = False; break
MenuReturnsNone ==
    /\ pc = "menu"
    /\ connected
    /\ connected' = FALSE
    /\ pc' = "scan"
    /\ UNCHANGED << detectorVars, sessionVars, collected_strings, pressed_frets,
                    started, timeout_task, new_chord_list_uploaded, exit_cause,
                    strums_completed, messages, dropped_count, background_task,
                    reader_running, delivered, notifications, queueHistory,
                    unitVars >>

\* _background_midi_reader: the loop condition `while self.connected and
\* self.midi_characteristic` is found false and the task finishes;
\* self.background_task keeps referring to the finished task
ReaderExits ==
    /\ reader_running
    /\ ~ connected
    /\ reader_running' = FALSE
    /\ UNCHANGED << detectorVars, sessionVars, runVars, messages, dropped_count,
                    connected, background_task, delivered, notifications,
                    queueHistory, unitVars >>

ConnectionNext ==
    \/ ScanAndConnect
    \/ \E data \in Notifications : ReaderNotify(data)
    \/ MenuTakes
    \/ MenuReturnsNone
    \/ ReaderExits

SpecConnection == ConnectionInit /\ [][ConnectionNext]_vars

-----------------------------------------------------------------------------
(* guitar_trainer_chords.py: the boot-time trainer, ChordTrainer.handle_midi. *)
(* It reads notifications itself and keeps its own table self.played_notes   *)
(* (index 0 = string 6), here played_notes; last_note, started, up,          *)
(* notes_hit and timeout_task are its locals.  Time is abstracted: whether   *)
(* more than 500 ms passed since the previous Note On is an input of the     *)
(* event, and the 750 ms timeout may fire whenever its task is pending.      *)

\* for fret in range(5): frets 0-4
MaxMappedFret == 4

\* STRING_NUMBER.get(note): strings 6 down to 1 are written in turn, so the
\* lowest-numbered string whose frets 0..4 hold the note stays (None: no entry)
STRING_NUMBER(note) ==
    LET on == { n \in 1..6 : note - OPEN_STRING_NOTES[n] \in 0..MaxMappedFret }
    IN  IF on = { } THEN None
        ELSE CHOOSE n \in on : \A m \in on : n <= m

SELECTION_NOTES == { 86, 81, 77, 72, 67, 62 }

\* The chords of the trainer's sessions (same notes in the trainer's table
\* as in config.py) and the lists the menu hands over
TrainerSequences == SequencesUpTo(SessionChords, MaxTrainerSeqLen) \ { << >> }

\* The notes of Em, the first string's third fret (a selection note) and a
\* note STRING_NUMBER has no entry for
TrainerNotes == Range(CHORD_MIDI_NOTES["Em"]) \cup { 67, UnmappedNote }

\* ChordTrainer.__init__, connected, handle_midi up to its loop
TrainerInit ==
    /\ DetectorConstructed
    /\ RunConstructed /\ pc = "loop"
    /\ SessionConstructed
    /\ chord_sequence \in TrainerSequences
    /\ mode \in { "R", "S" }
    /\ messages = << >> /\ dropped_count = 0
    /\ connected = TRUE /\ background_task = FALSE /\ reader_running = FALSE
    /\ delivered = << >> /\ notifications = 0
    /\ accepted = << >> /\ consumed = << >> /\ put_returned = "none"
    /\ UnitConstructed

\* time_last_chord is more than 500 ms back for certain: before the first
\* Note On (it starts at 0) and after an evaluation (which sleeps 500 ms)
MustReset == event.note = None \/ event.completed

\* One Note On handled by the loop of handle_midi; gap: more than 500 ms
\* have passed since the previous Note On
TrainerNoteOn(note, gap) ==
    /\ pc = "loop"
    /\ connected
    /\ MustReset => gap
    /\ LET active_notes == Cardinality({ i \in Strings : played_notes[i] # None })
           \* lines 1512-1517
           started1 == IF gap THEN FALSE ELSE started
           hit1 == IF gap THEN "False" ELSE notes_hit
           played1 == IF gap THEN EmptyTable ELSE played_notes
           last1 == IF gap THEN None ELSE last_note
           origin1 == IF gap THEN None ELSE strum_origin
           \* lines 1521-1525
           string_n == STRING_NUMBER(note)
           string_num == IF string_n # None THEN 6 - string_n ELSE 0
           \* lines 1531-1537
           played2 == IF played1[string_num] = None \/ note > played1[string_num]
                      THEN [ played1 EXCEPT ![string_num] = note ]
                      ELSE played1
           \* lines 1543-1558
           starts == ~ started1 /\ (string_num = 5 \/ string_num = 0)
           started2 == started1 \/ starts
           up2 == IF starts THEN string_num # 5 ELSE up
           origin2 == IF starts THEN string_num ELSE origin1
           timeout2 == IF starts THEN "pending" ELSE timeout_task
           \* lines 1573-1592
           completes == /\ started2
                        /\ \/ up2 /\ string_num = 5
                           \/ ~ up2 /\ string_num = 0
           hit3 == IF completes THEN "True" ELSE hit1
           handled(starts_, completes_) ==
               [ note |-> note, was_started |-> started1, origin |-> origin1,
                 started_now |-> starts_, completed |-> completes_ ]
           target == chord_sequence[current_chord_index + 1]
           played_notes_copy == get_played_notes(played2)
           is_correct == Range(CHORD_MIDI_NOTES[target]) \subseteq played_notes_copy
       IN  IF note \in SELECTION_NOTES /\ active_notes <= 1
           THEN \* lines 1501-1509: return 'menu'
                /\ pc' = "returned"
                /\ exit_cause' = "selection_note"
                /\ UNCHANGED << played_notes, last_note, started, timeout_task, up,
                                notes_hit, strum_origin, event, chord_sequence,
                                current_chord_index, verdict >>
           ELSE IF note = last1
           THEN \* line 1528: continue
                /\ played_notes' = played1
                /\ last_note' = last1
                /\ started' = started1
                /\ notes_hit' = hit1
                /\ strum_origin' = origin1
                /\ event' = handled(FALSE, FALSE)
                /\ UNCHANGED << timeout_task, up, chord_sequence,
                                current_chord_index, verdict, pc, exit_cause >>
           ELSE IF ~ started2 \/ hit3 = "False"
           THEN \* lines 1569-1570 and 1597-1598: continue
                /\ played_notes' = played2
                /\ last_note' = note
                /\ started' = started2
                /\ up' = up2
                /\ notes_hit' = hit1
                /\ timeout_task' = timeout2
                /\ strum_origin' = origin2
                /\ event' = handled(starts, FALSE)
                /\ UNCHANGED << chord_sequence, current_chord_index, verdict, pc,
                                exit_cause >>
           ELSE \* lines 1601-1685: the strum is evaluated
                /\ started' = IF completes THEN FALSE ELSE started2
                /\ up' = IF completes THEN ~ up2 ELSE up2
                /\ strum_origin' = IF completes THEN None ELSE origin2
                /\ event' = handled(starts, completes)
                /\ notes_hit' = "list"
                /\ last_note' = None
                /\ timeout_task' = "none"
                /\ IF is_correct
                   THEN /\ verdict' = "correct"
                        /\ played_notes' = played2
                        /\ IF current_chord_index + 1 >= Len(chord_sequence)
                           THEN /\ current_chord_index' = 0
                                /\ IF mode = "R"
                                   THEN chord_sequence' \in
                                          ShuffleFrom(chord_sequence,
                                                      Len(chord_sequence) - 1)
                                   ELSE chord_sequence' = chord_sequence
                           ELSE /\ current_chord_index' = current_chord_index + 1
                                /\ chord_sequence' = chord_sequence
                   ELSE /\ verdict' = "incorrect"
                        /\ played_notes' = EmptyTable
                        /\ UNCHANGED << chord_sequence, current_chord_index >>
                /\ UNCHANGED << pc, exit_cause >>
    /\ UNCHANGED << prev_played, target_chord, mode, pcd_return, pre_call,
                    match_results, collected_strings, pressed_frets,
                    new_chord_list_uploaded, strums_completed, bleVars,
                    helper_call >>

\* timeout_handler: the sleep of 750 ms is over
TrainerTimeout ==
    /\ timeout_task = "pending"
    /\ started' = FALSE
    /\ notes_hit' = "False"
    /\ played_notes' = EmptyTable
    /\ timeout_task' = "none"
    /\ strum_origin' = None
    /\ UNCHANGED << last_note, prev_played, sessionVars, collected_strings,
                    pressed_frets, new_chord_list_uploaded, pc, exit_cause,
                    strums_completed, bleVars, helper_call, up, event >>

TrainerNext ==
    \/ \E note \in TrainerNotes, gap \in BOOLEAN : TrainerNoteOn(note, gap)
    \/ TrainerTimeout

SpecTrainer == TrainerInit /\ [][TrainerNext]_vars

-----------------------------------------------------------------------------
(* Claims about the detector *)

PlayedSet == get_played_notes(played_notes)

\* Step 2 of the matcher as the specification words it: expected minus the tuning notes
NonOpenExpected(chord) == Range(CHORD_MIDI_NOTES[chord]) \ Range(OPEN_STRING_NOTES)

\* The expected notes that are fretted on the string they occupy in the chord's definition
FrettedExpected(chord) ==
    { CHORD_MIDI_NOTES[chord][i] : i \in { j \in 1..6 :
                                     CHORD_MIDI_NOTES[chord][j] # OPEN_STRING_NOTES[j] } }

\* C4: for every chord of the chord table and every set of notes held in the
\* detector, detect_chord reports is_correct exactly when the held notes are a
\* superset of the chord's non-open expected notes, and missing is what of
\* them is not held: extra notes never fail the match, a missing one always does.
C4_SupersetMatching ==
    \A chord \in ChordNames :
        LET r == detect_chord(played_notes, collected_strings, chord)
        IN  /\ r.is_correct <=> (NonOpenExpected(chord) \subseteq PlayedSet)
            /\ r.has_sets
            /\ r.missing = NonOpenExpected(chord) \ PlayedSet

\* C4 witness: Em with all six notes held is correct although four of them are
\* extra; (the table without 52 is the incorrect case of the same chord)
C4_Witness ==
    /\ PlayedSet = { 64, 59, 55, 52, 47, 40 }
    /\ detect_chord(played_notes, collected_strings, "Em").is_correct
    /\ detect_chord(played_notes, collected_strings, "Em").extra # {}

\* C5: the notes detect_chord requires are exactly the expected notes that are
\* fretted on their own string: is_correct holds exactly when all of them are held.
C5_OwnStringOpenExclusion ==
    \A chord \in ChordNames :
        detect_chord(played_notes, collected_strings, chord).is_correct
            <=> (FrettedExpected(chord) \subseteq PlayedSet)

\* C6: after add_note(N2) the slot of N2's string holds N2 when the slot was
\* empty or held a lower note N1 of that string, and still holds N1 when N1 is
\* higher; no slot's held note is ever replaced by anything but a higher note.
C6_HighestFretWins ==
    /\ (last_note # None /\ get_string_from_note(last_note) # None) =>
           LET k == 6 - get_string_from_note(last_note)
               N1 == prev_played[k]
               N2 == last_note
               same == get_string_from_note(N1) = get_string_from_note(N2)
           IN  /\ N1 = None => played_notes[k] = N2
               /\ (N1 # None /\ same /\ N2 > N1) => played_notes[k] = N2
               /\ (N1 # None /\ same /\ N2 < N1) => played_notes[k] = N1
    /\ \A k \in Strings :
           (prev_played[k] # None /\ played_notes[k] # prev_played[k])
               => played_notes[k] > prev_played[k]

\* C6 witness: a lower note of the same string arrived second and the slot kept the first
C6_Witness ==
    \E k \in Strings :
        /\ last_note # None
        /\ get_string_from_note(last_note) = 6 - k
        /\ prev_played[k] # None
        /\ get_string_from_note(prev_played[k]) = 6 - k
        /\ last_note < prev_played[k]
        /\ played_notes[k] = prev_played[k]

-----------------------------------------------------------------------------
(* Claims about the verdict handling *)

Count(seq, c) == Cardinality({ i \in DOMAIN seq : seq[i] = c })

IsPermutation(a, b) ==
    /\ Len(a) = Len(b)
    /\ \A c \in Range(a) \cup Range(b) : Count(a, c) = Count(b, c)

\* The latest call ended a pass through the sequence in Randomize mode
WrappedInRandomize ==
    /\ pcd_return # "none"
    /\ mode = "R"
    /\ verdict = "correct"
    /\ pre_call[1] + 1 >= Len(pre_call[2])

\* C8: in Randomize mode, after a correct detection that advances the index
\* past the end, chord_sequence is a permutation of the sequence before the
\* call, current_chord_index is 0, the call returns normally and the next
\* target is chord_sequence[0], whatever the random source drew.
C8_RandomizeReshuffles ==
    WrappedInRandomize =>
        /\ IsPermutation(chord_sequence, pre_call[2])
        /\ current_chord_index = 0
        /\ pcd_return = "None"
        /\ target_chord = chord_sequence[1]

\* C8 witness: a wrap-around whose shuffle changed the order
C8_Witness ==
    /\ WrappedInRandomize
    /\ Len(chord_sequence) >= 2
    /\ chord_sequence # pre_call[2]

-----------------------------------------------------------------------------
(* Claims about run() *)

\* run() has handled everything the guitar sent and no timeout is pending
Settled ==
    \/ pc = "returned"
    \/ pc = "loop" /\ messages = << >> /\ timeout_task # "pending"

\* The guitar sent exactly this notification
Sent(data) == delivered = ParseMidiMessages(data)

\* C1: once run() has handled a sweep from string 1 to string 6, whether
\* it struck every string or only the two endpoint strings, the strum has
\* completed exactly once.
C1_SweepCompletesOnce ==
    ((Sent(<< NoteOn(0, 64), NoteOn(5, 40) >>) \/ Sent(StrumOf("Em"))) /\ Settled)
        => strums_completed = 1

\* C2: once a single strike has been handled and its timeout has passed,
\* exactly one chord-match result has been produced and the detector's
\* table is empty.
C2_TimeoutProducesOneResult ==
    ((\E s \in { 0, 2, 5 } : Sent(<< NoteOn(s, OpenNote(s)) >>)) /\ Settled)
        => (match_results = 1 /\ played_notes = EmptyTable)

\* C7: in Sequential mode, once run() has handled a correct strum of each
\* chord of a one-chord sequence, the run has stopped signalling that the
\* sequence is complete.
C7_SequentialCompletes ==
    (mode = "S" /\ chord_sequence = << "Em" >> /\ Sent(StrumOf("Em")) /\ Settled)
        => (pc = "returned" /\ exit_cause = "sequence_complete")

-----------------------------------------------------------------------------
(* Claims about the queue *)

\* C12: with put() and get() in any interleaving, the messages get() has
\* returned are, in order, the first of the messages put() accepted, and
\* the rest of the accepted messages are exactly those still queued.
C12_FifoPrefix ==
    /\ Len(consumed) <= Len(accepted)
    /\ consumed = SubSeq(accepted, 1, Len(consumed))
    /\ accepted = consumed \o messages

C12_Witness ==
    /\ Len(consumed) >= 2
    /\ dropped_count >= 1
    /\ messages # << >>

\* C13: put() on a queue holding max_size messages returns False, adds one
\* to dropped_count and leaves the queued messages as they were; put() on a
\* queue with room returns True, appends the message and leaves
\* dropped_count as it was.
C13_RejectNewest ==
    [][ (delivered' # delivered) =>
            IF Len(messages) >= MaxQueueSize
            THEN /\ put_returned' = "False"
                 /\ dropped_count' = dropped_count + 1
                 /\ messages' = messages
            ELSE /\ put_returned' = "True"
                 /\ dropped_count' = dropped_count
                 /\ messages' = Append(messages, delivered'[Len(delivered')]) ]_vars

C13_Witness ==
    /\ put_returned = "False"
    /\ dropped_count = 1
    /\ Len(messages) = MaxQueueSize

\* C14: under put(), get() and clear() in any interleaving the queue never
\* holds more than max_size messages.
C14_QueueBounded == Len(messages) <= MaxQueueSize

C14_Witness ==
    /\ Len(messages) = MaxQueueSize
    /\ dropped_count >= 2

-----------------------------------------------------------------------------
(* Claims about starting a session *)

C16_UnknownChordRejected ==
    pc = "loop" => target_chord \in ChordNames

\* C17: for a target chord name absent from CHORD_MIDI_NOTES, detect_chord
\* answers is_correct = True whatever notes are held.
C17_UnknownChordIsCorrect ==
    detect_chord(played_notes, collected_strings, UnknownChord).is_correct

\* C17 as the code has it: for a target chord name absent from
\* CHORD_MIDI_NOTES, detect_chord raises nothing and answers
\* (False, None, None, None) whatever notes are held.
C17_UnknownChordIsIncorrect ==
    LET r == detect_chord(played_notes, collected_strings, UnknownChord)
    IN  ~r.is_correct /\ ~r.has_sets

C17_Witness ==
    /\ Cardinality(get_played_notes(played_notes)) >= 3
    /\ ~detect_chord(played_notes, collected_strings, UnknownChord).is_correct

-----------------------------------------------------------------------------
(* Claims about single strikes and about the reset after a strum *)

\* C18: once run() has handled a strike whose note no string can play,
\* the session goes on as before it: run() is still in its loop, nothing
\* was raised, the detector's table, the collected strings, the started
\* flag and the timeout are as they were.
C18_UnmappedStrikeDropped ==
    (Sent(<< NoteOn(5, OpenNote(5) - 1) >>) /\ Settled) =>
        /\ pc = "loop" /\ exit_cause = "none"
        /\ played_notes = EmptyTable
        /\ collected_strings = [ i \in Strings |-> None ]
        /\ ~started
        /\ timeout_task = "none"

-----------------------------------------------------------------------------
(* Claims about the matcher's arguments and sets, and about the string a   *)
(* note is filed under                                                      *)

\* C21: the result of detect_chord is decided by its arguments alone: the
\* call on the detector as it stands and the call with the same arguments
\* on a detector whose table is empty return the same result.
C21_PureOfArguments ==
    \A chord \in ChordNames :
        detect_chord(played_notes, collected_strings, chord)
            = detect_chord(EmptyTable, collected_strings, chord)

\* C22: the extra set of detect_chord is exactly the held notes that are
\* not notes of the target chord, open-string notes of the chord included
\* among the chord's notes.
C22_ExtraExcludesChordNotes ==
    \A chord \in ChordNames :
        detect_chord(played_notes, collected_strings, chord).extra
            = PlayedSet \ Range(CHORD_MIDI_NOTES[chord])

\* The strings (1..6) whose frets 0..24 include the note
StringsOfNote(note) ==
    { s \in 1..6 : OPEN_STRING_NOTES[s] <= note /\ note <= OPEN_STRING_NOTES[s] + 24 }

\* The table after the note was filed in slot i under the highest-note rule
Filed(table, i, note) ==
    [ table EXCEPT ![i] = IF table[i] = None \/ note > table[i] THEN note ELSE table[i] ]

\* The table add_note leaves when it reassigns note 59 under this condition
FiledWithSpecialCase(reassign) ==
    IF StringsOfNote(last_note) = {} THEN prev_played
    ELSE LET natural == CHOOSE s \in StringsOfNote(last_note) :
                            \A t \in StringsOfNote(last_note) : s <= t
             string_n == IF last_note = 59 /\ reassign THEN 3 ELSE natural
         IN  Filed(prev_played, 6 - string_n, last_note)

\* C23: add_note files note 59 under string 3 instead of string 2 exactly
\* when string 5's slot holds a note and string 4's slot is empty; every
\* other note, and 59 otherwise, goes to the string of the map.
C23_OpenBString5Held ==
    last_note # None =>
        played_notes = FiledWithSpecialCase(prev_played[6 - 5] # None
                                              /\ prev_played[6 - 4] = None)

\* C23 as the code has it: add_note files note 59 under string 3 instead
\* of string 2 exactly when string 2's slot holds a note and string 3's
\* slot is empty; every other note, and 59 otherwise, goes to the string
\* of the map.
C23_OpenBString2Held ==
    last_note # None =>
        played_notes = FiledWithSpecialCase(prev_played[6 - 2] # None
                                              /\ prev_played[6 - 3] = None)

C23_Witness ==
    /\ last_note = 59
    /\ prev_played[6 - 2] # None /\ prev_played[6 - 3] = None
    /\ played_notes[6 - 3] = 59

\* C29: after add_note(n), for every string index s of the transport on
\* whose frets 0..24 the note n lies, the detector's slot of that string
\* holds n (or a higher note held before).
C29_SlotOfEventString ==
    last_note # None =>
        \A s \in Strings :
            (OpenNote(s) <= last_note /\ last_note <= OpenNote(s) + 24)
                => played_notes[5 - s] >= last_note

-----------------------------------------------------------------------------
(* Claims about the timeout task, the index and the strike itself *)

\* run() has taken every message the guitar sent out of the queue
Handled == pc \in { "loop", "returned" } /\ messages = << >>

\* C25: once run() has processed a strike that does not complete the
\* strum, exactly one timeout task is alive: the one created for that
\* strike.
C25_OneTimeoutAfterStrike ==
    (Sent(<< NoteOn(0, OpenNote(0)) >>) /\ Handled) => timeout_task = "pending"

C28_StrikeDoesNotAbort ==
    \A s \in { 0, 2, 5 } :
        (Sent(<< NoteOn(s, OpenNote(s)) >>) /\ Handled) =>
            /\ pc = "loop"
            /\ OpenNote(s) \in get_played_notes(played_notes)

-----------------------------------------------------------------------------
(* Claims about the conversion helpers *)

\* C24: called with a string number 1..6 and a fret 0..24,
\* get_note_from_string_fret returns the open note of that string (the entry
\* of OPEN_STRING_NOTES at string - 1 in the source's 0-based list, which is
\* the entry at string in this module's 1-based sequence) plus the fret; and
\* get_fret_from_string_note, given the same string and that note, returns
\* the fret.
C24_HelpersTakeStrings1To6 ==
    /\ ( /\ helper_call.fn = "get_note_from_string_fret"
         /\ helper_call.string \in 1..6
         /\ helper_call.arg \in 0..MaxFret )
       => /\ ~ helper_call.raised
          /\ helper_call.value =
                OPEN_STRING_NOTES[helper_call.string] + helper_call.arg
    /\ ( /\ helper_call.fn = "get_fret_from_string_note"
         /\ helper_call.string \in 1..6
         /\ helper_call.arg - OPEN_STRING_NOTES[helper_call.string] \in 0..MaxFret )
       => /\ ~ helper_call.raised
          /\ helper_call.value =
                helper_call.arg - OPEN_STRING_NOTES[helper_call.string]

-----------------------------------------------------------------------------
(* Claims about the background reader *)

\* C30: whenever the connection manager reports connected, a background
\* reader task is running: every successful scan_and_connect, the reconnect
\* after the app loop detected a lost connection included, leaves a live
\* reader.
C30_ReaderWheneverConnected == connected => reader_running

-----------------------------------------------------------------------------
(* Claims about the boot-time trainer *)

\* C26: in handle_midi a strum is started only by a note on string 1 or
\* string 6 while no strum is in progress, and a note completes a strum
\* exactly when a strum is in progress and the note lies on the endpoint
\* string opposite to the one that started it.  (Index 5 is string 1 and
\* index 0 is string 6.)
C26_StrumEndpoints ==
    /\ event.started_now =>
          /\ ~ event.was_started
          /\ STRING_NUMBER(event.note) \in { 1, 6 }
    /\ event.completed <=>
          /\ event.origin # None
          /\ STRING_NUMBER(event.note) # None
          /\ 6 - STRING_NUMBER(event.note) = 5 - event.origin

=============================================================================
